---------------------------- MODULE Spec2Model ----------------------------
(***************************************************************************)
(* A model of util/utils.py: the training utilities of the BoTNet          *)
(* repository (AverageMeter, get_lr_scheduler, scaled_all_reduce,          *)
(* save_checkpoint, accuracy, setup_distributed).                          *)
(*                                                                         *)
(* Each helper of the file is independent of the others, so each has its   *)
(* own variables, its own initial condition and its own specification;     *)
(* the variables of the helpers a specification does not exercise stay at  *)
(* their idle values.                                                      *)
(*                                                                         *)
(* Python numbers: ints are unbounded integers; the result of a true       *)
(* division (a float) is modelled as an exact rational <<num, den>> in     *)
(* lowest terms with den > 0.                                              *)
(***************************************************************************)
EXTENDS Integers, Sequences, FiniteSets, TLC

VARIABLES
    \* AverageMeter (utils.py 141-163)
    val, avg, sum, count,
    hist,           \* ghost: the update(v, n) calls since the last reset
    meter_raised,   \* the exception the last AverageMeter call raised
    \* get_lr_scheduler (utils.py 200-209)
    lr_policy, max_epoch, sched_out,
    \* scaled_all_reduce (utils.py 56-77), one call on each process
    world_size,     \* torch.distributed.get_world_size()
    tensors,        \* tensors[p][i]: the i-th tensor of process p's list
    orig,           \* ghost: tensors as they were when the calls began
    rpc,            \* rpc[p]: where process p is in its call
    contrib,        \* contrib[p][i]: what p handed to the i-th collective
    arrived,        \* arrived[p][i]: p's i-th reduction has completed
    nissued, nwaited, nscaled,  \* ghost: how often each step ran per tensor
    ret,            \* ret[p]: what the call returned on p
    \* save_checkpoint (utils.py 221-225)
    fs,             \* the files, by resolved path relative to the working directory
    ck,             \* the last save_checkpoint call and its outcome
    best_given,     \* ghost: the state of the last call made with is_best true
    \* accuracy (utils.py 183-197)
    num_classes,    \* columns of output
    output,         \* output[s][c]: the score of class c for sample s
    target,         \* target[s]: the class of sample s
    topk,           \* the tuple of k's
    acc,            \* the outcome of the call
    \* setup_distributed (utils.py 19-53)
    env,            \* os.environ: name -> [set, v], v a string as its characters
    env0,           \* ghost: os.environ when the call began
    port,           \* the port argument: [given, v]
    num_gpus,       \* torch.cuda.device_count()
    scontrol,       \* what the scontrol command printed: the master address
    dist            \* the outcome: exception, device, process group

meterVars == <<val, avg, sum, count, hist, meter_raised>>
schedVars == <<lr_policy, max_epoch, sched_out>>
reduceVars == <<world_size, tensors, orig, rpc, contrib, arrived,
                nissued, nwaited, nscaled, ret>>
ckptVars == <<fs, ck, best_given>>
accVars == <<num_classes, output, target, topk, acc>>
distVars == <<env, env0, port, num_gpus, scontrol, dist>>
vars == <<meterVars, schedVars, reduceVars, ckptVars, accVars, distVars>>

\* what each helper leaves alone: the variables of the others
notMeter == <<schedVars, reduceVars, ckptVars, accVars, distVars>>
notSched == <<meterVars, reduceVars, ckptVars, accVars, distVars>>
notReduce == <<meterVars, schedVars, ckptVars, accVars, distVars>>
notCkpt == <<meterVars, schedVars, reduceVars, accVars, distVars>>
notAcc == <<meterVars, schedVars, reduceVars, ckptVars, distVars>>
notDist == <<meterVars, schedVars, reduceVars, ckptVars, accVars>>

-----------------------------------------------------------------------------
(* Bounds of the model *)

MaxUpdates == 3     \* update calls between two resets
MaxVal == 2         \* metered values are 0 .. MaxVal
MaxN == 2           \* largest weight n of an update
MaxNegN == 1        \* weights go down to -MaxNegN
MaxEpoch == 12      \* cfg.OPTIM.MAX_EPOCH is 1 .. MaxEpoch
MaxProcs == 2       \* processes in the group
MaxTensors == 2     \* tensors in the list handed to scaled_all_reduce
MaxTensorVal == 1   \* a process's first tensor is 0 .. MaxTensorVal
MaxField == 1       \* the fields of a checkpointed state are 0 .. MaxField
MaxBatch == 2       \* samples in a batch handed to accuracy
MaxClasses == 2     \* classes scored; the k's of topk go one beyond
MaxRank == 1        \* ranks are 0 .. MaxRank, world sizes 1 .. MaxRank + 1
MaxGpus == 2        \* torch.cuda.device_count() is 0 .. MaxGpus

-----------------------------------------------------------------------------
(* Arithmetic *)

Abs(x) == IF x < 0 THEN -x ELSE x

RECURSIVE Gcd(_, _)
Gcd(a, b) == IF b = 0 THEN a ELSE Gcd(b, a % b)

\* Python's a / b for b # 0, as a rational in lowest terms
TrueDiv(a, b) ==
    LET g == Gcd(Abs(a), Abs(b))
        s == IF b < 0 THEN -1 ELSE 1
    IN  <<(s * a) \div g, (s * b) \div g>>

RatMul(x, y) == TrueDiv(x[1] * y[1], x[2] * y[2])
RatAdd(x, y) == TrueDiv(x[1] * y[2] + y[1] * x[2], x[2] * y[2])
RatInt(n) == <<n, 1>>

RECURSIVE SeqSum(_)
SeqSum(s) == IF s = <<>> THEN 0 ELSE s[1] + SeqSum(Tail(s))

Last(s) == s[Len(s)]

-----------------------------------------------------------------------------
(* AverageMeter *)

MeterInit ==
    /\ val = 0
    /\ avg = RatInt(0)
    /\ sum = 0
    /\ count = 0
    /\ hist = <<>>
    /\ meter_raised = "none"

reset ==
    /\ val' = 0
    /\ avg' = RatInt(0)
    /\ sum' = 0
    /\ count' = 0
    /\ hist' = <<>>
    /\ meter_raised' = "none"

\* a variant of update that forgets the weight: sum += val
update_unweighted(v, n) ==
    /\ val' = v
    /\ sum' = sum + v
    /\ count' = count + n
    /\ IF count' = 0
       THEN avg' = avg /\ meter_raised' = "ZeroDivisionError"
       ELSE avg' = TrueDiv(sum', count') /\ meter_raised' = "none"
    /\ hist' = Append(hist, <<v, n>>)

\* a variant of update that assigns nothing when the division would raise
update_atomic(v, n) ==
    /\ hist' = Append(hist, <<v, n>>)
    /\ IF count + n = 0
       THEN /\ UNCHANGED <<val, sum, count, avg>>
            /\ meter_raised' = "ZeroDivisionError"
       ELSE /\ val' = v
            /\ sum' = sum + v * n
            /\ count' = count + n
            /\ avg' = TrueDiv(sum', count')
            /\ meter_raised' = "none"

\* update(val, n): the three assignments of lines 156-158 are made before the
\* division of line 159 can raise
update(v, n) ==
    /\ val' = v
    /\ sum' = sum + v * n
    /\ count' = count + n
    /\ IF count' = 0
       THEN avg' = avg /\ meter_raised' = "ZeroDivisionError"
       ELSE avg' = TrueDiv(sum', count') /\ meter_raised' = "none"
    /\ hist' = Append(hist, <<v, n>>)

MeterReset == reset /\ UNCHANGED notMeter

MeterUpdate ==
    /\ Len(hist) < MaxUpdates
    /\ \E v \in 0 .. MaxVal, n \in (0 - MaxNegN) .. MaxN : update(v, n)
    /\ UNCHANGED notMeter

MeterNext == MeterReset \/ MeterUpdate

-----------------------------------------------------------------------------
(* get_lr_scheduler *)

Policies == {"cos", "steps", "step", "linear", ""}

NoScheduler == [type |-> "none", T_max |-> 0, milestones |-> <<>>]

\* Lines 201 and 205 are not Python: "if cfg.OPTIM.LR_POLICY = "cos"" (an
\* assignment in a condition, no colon) and the argument
\* "cfg.OPTIM.LR_MULT=0.1" (a keyword that is an expression). The compiler
\* rejects the function, so no call of it ever runs its body.
Compiles == FALSE

\* the outcome of get_lr_scheduler(optimizer) under cfg.OPTIM.LR_POLICY = policy
\* and cfg.OPTIM.MAX_EPOCH = epochs
get_lr_scheduler(policy, epochs) ==
    IF ~Compiles
    THEN [kind |-> "raise", exc |-> "SyntaxError", scheduler |-> NoScheduler]
    ELSE IF policy = "cos"
    THEN [kind |-> "return", exc |-> "none",
          scheduler |-> [type |-> "CosineAnnealingLR", T_max |-> epochs,
                         milestones |-> <<>>]]
    ELSE IF policy = "steps"
    THEN [kind |-> "return", exc |-> "none",
          scheduler |-> [type |-> "MultiStepLR", T_max |-> 0,
                         milestones |-> <<(epochs * 3) \div 7, (epochs * 6) \div 7>>]]
    ELSE [kind |-> "raise", exc |-> "ValueError", scheduler |-> NoScheduler]

SchedNotCalled == [kind |-> "none", exc |-> "none", scheduler |-> NoScheduler]

SchedIdle ==
    /\ lr_policy = "cos"
    /\ max_epoch = 1
    /\ sched_out = SchedNotCalled

SchedInit ==
    /\ lr_policy \in Policies
    /\ max_epoch \in 1 .. MaxEpoch
    /\ sched_out = SchedNotCalled

SchedCall ==
    /\ sched_out = SchedNotCalled
    /\ sched_out' = get_lr_scheduler(lr_policy, max_epoch)
    /\ UNCHANGED <<lr_policy, max_epoch>>
    /\ UNCHANGED notSched

SchedNext == SchedCall

-----------------------------------------------------------------------------
(* scaled_all_reduce *)

Procs == 1 .. world_size

\* the list a process passes: tensors x, x+1, ... for some x
TensorLists(len) ==
    { [i \in 1 .. len |-> RatInt(x + i - 1)] : x \in 0 .. MaxTensorVal }

ListLen == Len(tensors[1])

RatSeqSum(f, n) ==
    LET S[k \in 0 .. n] == IF k = 0 THEN RatInt(0) ELSE RatAdd(S[k - 1], f[k])
    IN  S[n]

\* The loops of lines 68-76 run one after the other. after(at, i, len) is
\* where control goes when loop `at` is about to take index i (at = "call":
\* the function has just passed the test of line 64).
\* a variant with one loop: issue, wait and scale tensor i, then tensor i + 1
after_fused(at, i, len) ==
    IF at = "call" THEN (IF len > 0 THEN [at |-> "issue", i |-> 1]
                                    ELSE [at |-> "return", i |-> 0])
    ELSE IF at = "issue" THEN [at |-> "wait", i |-> i - 1]
    ELSE IF at = "wait" THEN [at |-> "scale", i |-> i - 1]
    ELSE IF i <= len THEN [at |-> "issue", i |-> i]
    ELSE [at |-> "return", i |-> 0]

after(at, i, len) ==
    IF len = 0 THEN [at |-> "return", i |-> 0]
    ELSE IF at = "call" THEN [at |-> "issue", i |-> 1]
    ELSE IF i <= len THEN [at |-> at, i |-> i]
    ELSE IF at = "issue" THEN [at |-> "wait", i |-> 1]
    ELSE IF at = "wait" THEN [at |-> "scale", i |-> 1]
    ELSE [at |-> "return", i |-> 0]

\* tensor.mul_(1.0 / gpus)
\* a variant that leaves the sum unscaled
mul_unscaled(t, gpus) == t
mul_(t, gpus) == RatMul(t, TrueDiv(1, gpus))

ReduceInit ==
    /\ world_size \in 1 .. MaxProcs
    /\ \E len \in 0 .. MaxTensors : tensors \in [Procs -> TensorLists(len)]
    /\ orig = tensors
    /\ rpc = [p \in Procs |-> [at |-> "call", i |-> 0]]
    /\ contrib = [p \in Procs |-> [i \in 1 .. ListLen |-> RatInt(0)]]
    /\ arrived = [p \in Procs |-> [i \in 1 .. ListLen |-> FALSE]]
    /\ nissued = [p \in Procs |-> [i \in 1 .. ListLen |-> 0]]
    /\ nwaited = [p \in Procs |-> [i \in 1 .. ListLen |-> 0]]
    /\ nscaled = [p \in Procs |-> [i \in 1 .. ListLen |-> 0]]
    /\ ret = [p \in Procs |-> "none"]

ReduceIdle ==
    /\ world_size = 1
    /\ tensors = <<<<>>>>
    /\ orig = <<<<>>>>
    /\ rpc = <<[at |-> "done", i |-> 0]>>
    /\ contrib = <<<<>>>>
    /\ arrived = <<<<>>>>
    /\ nissued = <<<<>>>>
    /\ nwaited = <<<<>>>>
    /\ nscaled = <<<<>>>>
    /\ ret = <<"none">>

\* lines 63-67: the single-process case returns at once
Enter(p) ==
    /\ rpc[p].at = "call"
    /\ IF world_size = 1
       THEN rpc' = [rpc EXCEPT ![p] = [at |-> "return", i |-> 0]]
       ELSE rpc' = [rpc EXCEPT ![p] = after("call", 1, ListLen)]
    /\ UNCHANGED <<world_size, tensors, orig, contrib, arrived,
                   nissued, nwaited, nscaled, ret>>

\* lines 68-70: all_reduce(tensor, async_op=True) hands the tensor to the
\* collective and returns a work handle without waiting
Issue(p) ==
    /\ rpc[p].at = "issue"
    /\ LET i == rpc[p].i IN
        /\ contrib' = [contrib EXCEPT ![p][i] = tensors[p][i]]
        /\ nissued' = [nissued EXCEPT ![p][i] = @ + 1]
        /\ rpc' = [rpc EXCEPT ![p] = after("issue", i + 1, ListLen)]
    /\ UNCHANGED <<world_size, tensors, orig, arrived, nwaited, nscaled, ret>>

\* the collective itself: once every process has handed in its i-th tensor,
\* the sum is written into the tensor of each process, at its own time
Arrive(p, i) ==
    /\ ~arrived[p][i]
    /\ \A q \in Procs : nissued[q][i] > 0
    /\ tensors' = [tensors EXCEPT ![p][i] =
                      RatSeqSum([q \in Procs |-> contrib[q][i]], world_size)]
    /\ arrived' = [arrived EXCEPT ![p][i] = TRUE]
    /\ UNCHANGED <<world_size, orig, rpc, contrib, nissued, nwaited, nscaled, ret>>

\* lines 72-73: reduction.wait() returns once the reduction has completed
Wait(p) ==
    /\ rpc[p].at = "wait"
    /\ LET i == rpc[p].i IN
        /\ arrived[p][i]
        /\ nwaited' = [nwaited EXCEPT ![p][i] = @ + 1]
        /\ rpc' = [rpc EXCEPT ![p] = after("wait", i + 1, ListLen)]
    /\ UNCHANGED <<world_size, tensors, orig, contrib, arrived, nissued, nscaled, ret>>

\* lines 75-76
Scale(p) ==
    /\ rpc[p].at = "scale"
    /\ LET i == rpc[p].i IN
        /\ tensors' = [tensors EXCEPT ![p][i] = mul_(@, world_size)]
        /\ nscaled' = [nscaled EXCEPT ![p][i] = @ + 1]
        /\ rpc' = [rpc EXCEPT ![p] = after("scale", i + 1, ListLen)]
    /\ UNCHANGED <<world_size, orig, contrib, arrived, nissued, nwaited, ret>>

\* lines 65 and 77: return tensors, the list that was passed in
Return(p) ==
    /\ rpc[p].at = "return"
    /\ ret' = [ret EXCEPT ![p] = "tensors"]
    /\ rpc' = [rpc EXCEPT ![p] = [at |-> "done", i |-> 0]]
    /\ UNCHANGED <<world_size, tensors, orig, contrib, arrived,
                   nissued, nwaited, nscaled>>

ReduceEnter == (\E p \in Procs : Enter(p)) /\ UNCHANGED notReduce
ReduceIssue == (\E p \in Procs : Issue(p)) /\ UNCHANGED notReduce
ReduceArrive ==
    /\ \E p \in Procs : \E i \in 1 .. ListLen : Arrive(p, i)
    /\ UNCHANGED notReduce
ReduceWait == (\E p \in Procs : Wait(p)) /\ UNCHANGED notReduce
ReduceScale == (\E p \in Procs : Scale(p)) /\ UNCHANGED notReduce
ReduceReturn == (\E p \in Procs : Return(p)) /\ UNCHANGED notReduce

ReduceNext ==
    \/ ReduceEnter
    \/ ReduceIssue
    \/ ReduceArrive
    \/ ReduceWait
    \/ ReduceScale
    \/ ReduceReturn

-----------------------------------------------------------------------------
(* save_checkpoint *)

\* A path is the sequence of its components; a file name is one component.
Filenames == {"ckpt.pth.tar", "ckpt_best.pth.tar", "model.pth.tar"}

BestName == "ckpt_best.pth.tar"

\* "./checkpoint/" + filename and a bare file name, as paths
JoinCheckpointDir(filename) == <<".", "checkpoint", filename>>
Bare(filename) == <<filename>>

\* the file a relative path names: "." components drop out
RECURSIVE Resolve(_)
Resolve(path) ==
    IF path = <<>> THEN <<>>
    ELSE IF path[1] = "." THEN Resolve(Tail(path))
    ELSE <<path[1]>> \o Resolve(Tail(path))

AllPaths ==
    {Resolve(Bare(f)) : f \in Filenames}
        \cup {Resolve(JoinCheckpointDir(f)) : f \in Filenames}

\* the states checkpointed: dictionaries with primitive fields
CkStates == [epoch : 0 .. MaxField, best_acc1 : 0 .. MaxField]

NoFile == [exists |-> FALSE, data |-> <<>>]

\* torch.save / torch.load on such a state: the items of the dictionary,
\* written out as key-value pairs and read back by key
serialize(state) ==
    << <<"epoch", state.epoch>>, <<"best_acc1", state.best_acc1>> >>

ItemOf(data, key) ==
    IF \E k \in 1 .. Len(data) : data[k][1] = key
    THEN data[CHOOSE k \in 1 .. Len(data) : data[k][1] = key][2]
    ELSE -1

deserialize(data) ==
    [epoch |-> ItemOf(data, "epoch"), best_acc1 |-> ItemOf(data, "best_acc1")]

\* torch.save(obj, f): the files after writing obj to path f
torch_save(files, state, f) ==
    [files EXCEPT ![Resolve(f)] = [exists |-> TRUE, data |-> serialize(state)]]

\* shutil.copyfile(src, dst): the exception raised ("none": none) and the files
\* afterwards
\* a variant with the arguments exchanged: copies dst over src
copyfile_reversed(files, src, dst) ==
    IF Resolve(src) = Resolve(dst)
    THEN [raised |-> "SameFileError", files |-> files]
    ELSE IF ~files[Resolve(dst)].exists
    THEN [raised |-> "FileNotFoundError", files |-> files]
    ELSE [raised |-> "none",
          files |-> [files EXCEPT ![Resolve(src)] = files[Resolve(dst)]]]

copyfile(files, src, dst) ==
    IF Resolve(src) = Resolve(dst)
    THEN [raised |-> "SameFileError", files |-> files]
    ELSE IF ~files[Resolve(src)].exists
    THEN [raised |-> "FileNotFoundError", files |-> files]
    ELSE [raised |-> "none",
          files |-> [files EXCEPT ![Resolve(dst)] = files[Resolve(src)]]]

NotSaved ==
    [called |-> FALSE, state |-> [epoch |-> 0, best_acc1 |-> 0],
     is_best |-> FALSE, filename |-> "ckpt.pth.tar", wrote |-> <<>>,
     raised |-> "none"]

NoBest == [given |-> FALSE, state |-> [epoch |-> 0, best_acc1 |-> 0]]

CkptInit ==
    /\ fs = [path \in AllPaths |-> NoFile]
    /\ ck = NotSaved
    /\ best_given = NoBest

\* save_checkpoint(state, is_best, filename): `path` is computed on line 222
\* and not used; lines 223 and 225 pass `filename`
save_checkpoint(state, is_best, filename) ==
    LET path == JoinCheckpointDir(filename)
        saved == torch_save(fs, state, Bare(filename))
        copied == copyfile(saved, Bare(filename), Bare(BestName))
    IN  /\ fs' = IF is_best THEN copied.files ELSE saved
        /\ ck' = [called |-> TRUE, state |-> state, is_best |-> is_best,
                  filename |-> filename, wrote |-> Resolve(Bare(filename)),
                  raised |-> IF is_best THEN copied.raised ELSE "none"]
        /\ best_given' = IF is_best THEN [given |-> TRUE, state |-> state]
                                    ELSE best_given

CkptSave ==
    /\ \E state \in CkStates, is_best \in BOOLEAN, filename \in Filenames :
          save_checkpoint(state, is_best, filename)
    /\ UNCHANGED notCkpt

CkptNext == CkptSave

-----------------------------------------------------------------------------
(* accuracy *)

Scores == {0, 1}

Classes == 1 .. num_classes

BatchSize == Len(target)

\* topk tuples of one or two k's
TopkTuples(n) ==
    {<<k>> : k \in 1 .. n + 1} \cup {<<k, l>> : k \in 1 .. n + 1, l \in 1 .. n + 1}

SeqMax(t) == CHOOSE m \in {t[j] : j \in 1 .. Len(t)} :
                 \A j \in 1 .. Len(t) : t[j] <= m

\* The order among equal scores is the library's: the lower class index
\* first, or the higher.
TieOrders == {"low", "high"}

Before(row, order, a, b) ==
    \/ row[a] > row[b]
    \/ row[a] = row[b] /\ (IF order = "low" THEN a < b ELSE a > b)

\* row.topk(k, largest=True, sorted=True): the indices of the k largest
\* scores of a row, in descending order of score
TopkOfRow(row, k, order) ==
    [j \in 1 .. k |->
        CHOOSE c \in DOMAIN row :
            Cardinality({b \in DOMAIN row : Before(row, order, b, c)}) = j - 1]

\* correct[:k].reshape(-1).float().sum(0): the samples whose target is among
\* the first k predictions
\* a variant that counts the k-th prediction alone: correct[k-1:k]
correct_k_only_kth(pred, tgt, k) ==
    Cardinality({ s \in 1 .. Len(tgt) : pred[s][k] = tgt[s] })
correct_k(pred, tgt, k) ==
    Cardinality({ s \in 1 .. Len(tgt) : \E j \in 1 .. k : pred[s][j] = tgt[s] })

AccNotCalled == [kind |-> "none", exc |-> "none", res |-> <<>>]

AccRaise(e) == [kind |-> "raise", exc |-> e, res |-> <<>>]

AccInit ==
    /\ num_classes \in 1 .. MaxClasses
    /\ \E b \in 1 .. MaxBatch :
          /\ output \in [1 .. b -> [Classes -> Scores]]
          /\ target \in [1 .. b -> Classes]
    /\ topk \in TopkTuples(num_classes)
    /\ acc = AccNotCalled

AccIdle ==
    /\ num_classes = 1
    /\ output = <<>>
    /\ target = <<>>
    /\ topk = <<>>
    /\ acc = AccNotCalled

\* accuracy(output, target, topk): max(topk) of an empty tuple raises (line
\* 186), topk raises when maxk exceeds the number of classes (line 189), and
\* 100.0 / batch_size raises for an empty batch (line 196)
accuracy ==
    IF topk = <<>> THEN acc' = AccRaise("ValueError")
    ELSE LET maxk == SeqMax(topk) IN
        IF maxk > num_classes THEN acc' = AccRaise("RuntimeError")
        ELSE \E order \in TieOrders :
            LET pred == [s \in 1 .. BatchSize |-> TopkOfRow(output[s], maxk, order)]
            IN  IF BatchSize = 0 THEN acc' = AccRaise("ZeroDivisionError")
                ELSE acc' = [kind |-> "return", exc |-> "none",
                             res |-> [j \in 1 .. Len(topk) |->
                                        RatMul(RatInt(correct_k(pred, target, topk[j])),
                                               TrueDiv(100, BatchSize))]]

AccCall ==
    /\ acc = AccNotCalled
    /\ accuracy
    /\ UNCHANGED <<num_classes, output, target, topk>>
    /\ UNCHANGED notAcc

AccNext == AccCall

-----------------------------------------------------------------------------
(* setup_distributed *)

EnvNames == {"SLURM_JOB_ID", "SLURM_PROCID", "SLURM_NTASKS", "SLURM_NODELIST",
             "MASTER_PORT", "MASTER_ADDR", "WORLD_SIZE", "LOCAL_RANK", "RANK"}

Unset == [set |-> FALSE, v |-> <<>>]
Value(chars) == [set |-> TRUE, v |-> chars]

DigitChars == <<"0", "1", "2", "3", "4", "5", "6", "7", "8", "9">>

DigitOf(c) == (CHOOSE d \in 1 .. 10 : DigitChars[d] = c) - 1

\* int(s) for a string of decimal digits
RECURSIVE int(_)
int(chars) ==
    IF chars = <<>> THEN 0
    ELSE 10 * int(SubSeq(chars, 1, Len(chars) - 1)) + DigitOf(chars[Len(chars)])

\* str(n) for an int n >= 0
RECURSIVE str(_)
str(n) ==
    IF n < 10 THEN <<DigitChars[n + 1]>>
    ELSE str(n \div 10) \o <<DigitChars[(n % 10) + 1]>>

setenv(e, name, chars) == [e EXCEPT ![name] = Value(chars)]

NoPort == [given |-> FALSE, v |-> 0]

\* lines 32-35: the master port
\* a variant that tests "if port:" and so takes port 0 for no port
master_port_if_truthy(e, p) ==
    IF p.given /\ p.v # 0 THEN setenv(e, "MASTER_PORT", str(p.v))
    ELSE IF ~e["MASTER_PORT"].set THEN setenv(e, "MASTER_PORT", <<"2", "9", "5", "0", "0">>)
    ELSE e

master_port(e, p) ==
    IF p.given THEN setenv(e, "MASTER_PORT", str(p.v))
    ELSE IF ~e["MASTER_PORT"].set THEN setenv(e, "MASTER_PORT", <<"2", "9", "5", "0", "0">>)
    ELSE e

\* lines 36-37
master_addr(e, addr) ==
    IF ~e["MASTER_ADDR"].set THEN setenv(e, "MASTER_ADDR", addr) ELSE e

NotSetUp ==
    [called |-> FALSE, raised |-> "none", device |-> -1,
     pg |-> [initialized |-> FALSE, rank |-> -1, world_size |-> -1]]

DistRaise(e) == [NotSetUp EXCEPT !.called = TRUE, !.raised = e]

\* lines 45-51: torch.cuda.set_device(rank % num_gpus), then
\* dist.init_process_group(backend, world_size, rank)
bind_and_init(rank, world) ==
    IF num_gpus = 0 THEN DistRaise("ZeroDivisionError")
    ELSE [called |-> TRUE, raised |-> "none", device |-> rank % num_gpus,
          pg |-> [initialized |-> TRUE, rank |-> rank, world_size |-> world]]

RankStrings == {str(r) : r \in 0 .. MaxRank}
SizeStrings == {str(n) : n \in 1 .. MaxRank + 1}

Opt(strings) == {Unset} \cup {Value(c) : c \in strings}

DistInit ==
    /\ \E job \in Opt({<<"7">>}), procid \in Opt(RankStrings),
          ntasks \in Opt(SizeStrings), nodes \in Opt({<<"n", "[", "1", "-", "2", "]">>}),
          mport \in Opt({<<"1", "2", "3", "4", "5">>}), maddr \in Opt({<<"h", "0">>}),
          wsize \in Opt(SizeStrings), lrank \in Opt({<<"0">>}), rank \in Opt(RankStrings) :
          env = [n \in EnvNames |->
                   CASE n = "SLURM_JOB_ID" -> job
                     [] n = "SLURM_PROCID" -> procid
                     [] n = "SLURM_NTASKS" -> ntasks
                     [] n = "SLURM_NODELIST" -> nodes
                     [] n = "MASTER_PORT" -> mport
                     [] n = "MASTER_ADDR" -> maddr
                     [] n = "WORLD_SIZE" -> wsize
                     [] n = "LOCAL_RANK" -> lrank
                     [] OTHER -> rank]
    /\ env0 = env
    /\ port \in {NoPort, [given |-> TRUE, v |-> 0], [given |-> TRUE, v |-> 29501]}
    /\ num_gpus \in 0 .. MaxGpus
    /\ scontrol = <<"n", "1">>
    /\ dist = NotSetUp

DistIdle ==
    /\ env = [n \in EnvNames |-> Unset]
    /\ env0 = env
    /\ port = NoPort
    /\ num_gpus = 0
    /\ scontrol = <<>>
    /\ dist = NotSetUp

\* setup_distributed(backend, port): reading a variable that is not set
\* raises KeyError; what was assigned before an exception stays assigned
setup_distributed ==
    IF env["SLURM_JOB_ID"].set
    THEN IF ~env["SLURM_PROCID"].set \/ ~env["SLURM_NTASKS"].set
               \/ ~env["SLURM_NODELIST"].set
         THEN env' = env /\ dist' = DistRaise("KeyError")
         ELSE LET rank == int(env["SLURM_PROCID"].v)
                  world == int(env["SLURM_NTASKS"].v)
                  e1 == master_port(env, port)
                  e2 == master_addr(e1, scontrol)
                  e3 == setenv(e2, "WORLD_SIZE", str(world))
              IN  IF num_gpus = 0
                  THEN env' = e3 /\ dist' = DistRaise("ZeroDivisionError")
                  ELSE /\ env' = setenv(setenv(e3, "LOCAL_RANK", str(rank % num_gpus)),
                                        "RANK", str(rank))
                       /\ dist' = bind_and_init(rank, world)
    ELSE IF ~env["RANK"].set \/ ~env["WORLD_SIZE"].set
         THEN env' = env /\ dist' = DistRaise("KeyError")
         ELSE /\ env' = env
              /\ dist' = bind_and_init(int(env["RANK"].v), int(env["WORLD_SIZE"].v))

DistSetup ==
    /\ ~dist.called
    /\ setup_distributed
    /\ UNCHANGED <<env0, port, num_gpus, scontrol>>
    /\ UNCHANGED notDist

DistNext == DistSetup

-----------------------------------------------------------------------------
(* Specifications *)

MeterSpecInit ==
    /\ MeterInit
    /\ SchedIdle
    /\ ReduceIdle
    /\ CkptInit
    /\ AccIdle
    /\ DistIdle

MeterSpec == MeterSpecInit /\ [][MeterNext]_vars

SchedSpecInit ==
    /\ SchedInit
    /\ MeterInit
    /\ ReduceIdle
    /\ CkptInit
    /\ AccIdle
    /\ DistIdle

SchedSpec == SchedSpecInit /\ [][SchedNext]_vars

ReduceSpecInit ==
    /\ ReduceInit
    /\ MeterInit
    /\ SchedIdle
    /\ CkptInit
    /\ AccIdle
    /\ DistIdle

ReduceSpec == ReduceSpecInit /\ [][ReduceNext]_vars

CkptSpecInit ==
    /\ CkptInit
    /\ MeterInit
    /\ SchedIdle
    /\ ReduceIdle
    /\ AccIdle
    /\ DistIdle

CkptSpec == CkptSpecInit /\ [][CkptNext]_vars

AccSpecInit ==
    /\ AccInit
    /\ MeterInit
    /\ SchedIdle
    /\ ReduceIdle
    /\ CkptInit
    /\ DistIdle

AccSpec == AccSpecInit /\ [][AccNext]_vars

DistSpecInit ==
    /\ DistInit
    /\ MeterInit
    /\ SchedIdle
    /\ ReduceIdle
    /\ CkptInit
    /\ AccIdle

DistSpec == DistSpecInit /\ [][DistNext]_vars

-----------------------------------------------------------------------------
(* AverageMeter: claims *)

HistWeightsAtLeast(k) == \A i \in 1 .. Len(hist) : hist[i][2] >= k

\* avg is the number a / b
IsQuotient(q, a, b) == q[2] > 0 /\ q[1] * b = a * q[2]

\* C1: with integer weights n_i >= 1, the fields of an AverageMeter depend
\* only on the updates since the most recent reset (or construction): sum is
\* the sum of v_i * n_i, count the sum of n_i, avg is sum / count and val the
\* v of the last update; right after reset() or construction all four are 0.
C1_MeterTracksUpdates ==
    HistWeightsAtLeast(1) =>
        /\ sum = SeqSum([i \in 1 .. Len(hist) |-> hist[i][1] * hist[i][2]])
        /\ count = SeqSum([i \in 1 .. Len(hist) |-> hist[i][2]])
        /\ hist = <<>> => val = 0 /\ avg = RatInt(0) /\ sum = 0 /\ count = 0
        /\ hist # <<>> => val = Last(hist)[1] /\ IsQuotient(avg, sum, count)

C1_Witness ==
    /\ Len(hist) >= 2
    /\ HistWeightsAtLeast(1)
    /\ hist[1][2] = 2
    /\ hist[2][1] # hist[1][1]
    /\ avg[2] # 1

MeterStateConsistent ==
    /\ count > 0 => IsQuotient(avg, sum, count)
    /\ count = 0 => sum = 0 /\ avg = RatInt(0)

\* C10 as stated: an update that fails on a cumulative count of 0 leaves val,
\* sum, count and avg as they were; with count > 0, avg = sum / count, and
\* with count = 0, sum = 0 and avg = 0.
C10_FailedUpdateChangesNothing ==
    /\ []MeterStateConsistent
    /\ [][meter_raised' = "ZeroDivisionError" =>
            val' = val /\ sum' = sum /\ count' = count /\ avg' = avg]_vars

\* C10 amended: an update(val, n) that fails on a cumulative count of 0 has
\* stored the new val and added val * n to sum and n to count, and left only
\* avg as it was; whenever count # 0, avg = sum / count; and while every
\* weight since the last reset is >= 0, count = 0 implies sum = 0 and avg = 0.
C10_FailedUpdateKeepsOnlyAvg ==
    /\ [](count # 0 => IsQuotient(avg, sum, count))
    /\ [](HistWeightsAtLeast(0) /\ count = 0 => sum = 0 /\ avg = RatInt(0))
    /\ [][meter_raised' = "ZeroDivisionError" =>
            /\ hist' # <<>>
            /\ hist' = Append(hist, Last(hist'))
            /\ val' = Last(hist')[1]
            /\ sum' = sum + Last(hist')[1] * Last(hist')[2]
            /\ count' = count + Last(hist')[2]
            /\ count' = 0
            /\ avg' = avg]_vars

C10_Witness ==
    /\ meter_raised = "ZeroDivisionError"
    /\ Len(hist) = 1
    /\ val # 0

-----------------------------------------------------------------------------
(* get_lr_scheduler: claims *)

\* C2: get_lr_scheduler returns a scheduler object for the policies "cos" and
\* "steps", raises a value error (returning nothing) for every other policy,
\* and raises no other error itself.
C2_SchedulerForCosAndSteps ==
    sched_out.kind # "none" =>
        /\ lr_policy \in {"cos", "steps"} =>
              sched_out.kind = "return" /\ sched_out.scheduler # NoScheduler
        /\ lr_policy \notin {"cos", "steps"} =>
              sched_out.kind = "raise" /\ sched_out.scheduler = NoScheduler
        /\ sched_out.kind = "raise" => sched_out.exc = "ValueError"

-----------------------------------------------------------------------------
(* scaled_all_reduce: claims *)

Indices == 1 .. ListLen

\* C3: with more than one process, on every process every reduction of the
\* list is issued before any is waited on, every issued reduction has been
\* waited on and has completed before any tensor is scaled, and each tensor
\* is reduced exactly once and scaled exactly once.
C3_IssueAllWaitAllThenScale ==
    world_size > 1 =>
        \A p \in Procs :
            /\ \A i \in Indices :
                  nissued[p][i] <= 1 /\ nwaited[p][i] <= 1 /\ nscaled[p][i] <= 1
            /\ (\E i \in Indices : nwaited[p][i] > 0) =>
                  \A j \in Indices : nissued[p][j] = 1
            /\ (\E i \in Indices : nscaled[p][i] > 0) =>
                  \A j \in Indices :
                      nissued[p][j] = 1 /\ nwaited[p][j] = 1 /\ arrived[p][j]
            /\ rpc[p].at \in {"return", "done"} =>
                  \A j \in Indices : nissued[p][j] = 1 /\ nscaled[p][j] = 1

C3_Witness ==
    /\ world_size > 1
    /\ ListLen >= 2
    /\ \E p \in Procs :
          /\ rpc[p].at = "done"
          /\ \A j \in Indices : nissued[p][j] = 1 /\ nscaled[p][j] = 1

AllReturned == \A p \in Procs : rpc[p].at = "done"

OrigSum(i) == SeqSum([q \in Procs |-> orig[q][i][1]])

\* C4: when all N >= 1 processes have returned from scaled_all_reduce on
\* lists of the same length, the i-th tensor of every process holds the sum
\* of the processes' original i-th tensors divided by N; the tensors of the
\* list passed in hold the result and that list is what is returned; for
\* N = 1 the tensors are unchanged and no reduction is issued.
C4_ScaledSumEverywhere ==
    AllReturned =>
        /\ \A p \in Procs :
              /\ ret[p] = "tensors"
              /\ \A i \in Indices :
                    /\ IsQuotient(tensors[p][i], OrigSum(i), world_size)
                    /\ tensors[p][i] = tensors[1][i]
        /\ world_size = 1 =>
              /\ tensors = orig
              /\ \A i \in Indices : nissued[1][i] = 0

C4_Witness ==
    /\ AllReturned
    /\ world_size > 1
    /\ \E i \in Indices : tensors[1][i][2] # 1 /\ tensors[world_size][i] # orig[1][i]

-----------------------------------------------------------------------------
(* save_checkpoint: claims *)

BestPath == Resolve(Bare(BestName))

Holds(path, state) == fs[path].exists /\ deserialize(fs[path].data) = state

\* C5: after save_checkpoint(state, is_best, filename) returns, reloading the
\* checkpoint file it wrote yields the state it was given, whatever is_best
\* is and whatever was saved before.
C5_ReloadYieldsSavedState ==
    ck.called /\ ck.raised = "none" => Holds(ck.wrote, ck.state)

C5_Witness ==
    /\ ck.called /\ ck.raised = "none" /\ ck.is_best
    /\ ck.state = [epoch |-> 1, best_acc1 |-> 0]
    /\ Holds(ck.wrote, ck.state)
    /\ \E path \in AllPaths :
          path # ck.wrote /\ path # BestPath /\ fs[path].exists
              /\ deserialize(fs[path].data) # ck.state

\* C6: after any sequence of save_checkpoint calls the best-copy file
\* ckpt_best.pth.tar holds exactly the state of the most recent call made
\* with is_best true (so a call with is_best false leaves it as it was), and
\* a call with is_best true completes without error.
C6_BestCopyIsLastBest ==
    /\ best_given.given => Holds(BestPath, best_given.state)
    /\ ~best_given.given => ~fs[BestPath].exists
    /\ ck.called /\ ck.is_best => ck.raised = "none"

\* C8: save_checkpoint writes the serialized state to the path it computes,
\* ./checkpoint/<filename>, the best copy is made from the file there, and no
\* file other than that one and the best copy is written.
C8_WritesToComputedPath ==
    /\ ck.called => Holds(Resolve(JoinCheckpointDir(ck.filename)), ck.state)
    /\ \A path \in AllPaths :
          fs[path].exists =>
              \/ path = BestPath
              \/ \E f \in Filenames : path = Resolve(JoinCheckpointDir(f))

-----------------------------------------------------------------------------
(* accuracy: claims *)

\* classes scored above the target of sample s, and classes tied with it
Above(s) == Cardinality({c \in Classes : output[s][c] > output[s][target[s]]})
Tied(s) ==
    Cardinality({c \in Classes \ {target[s]} : output[s][c] = output[s][target[s]]})

\* the k highest-scored classes of every sample are determined as far as its
\* target goes: no tie of the target falls across the k-th place
TopDetermined(k) ==
    \A s \in 1 .. BatchSize : Above(s) + Tied(s) < k \/ Above(s) >= k

InTop(k) == {s \in 1 .. BatchSize : Above(s) < k}

ValuesAsClaimed ==
    /\ Len(acc.res) = Len(topk)
    /\ \A j \in 1 .. Len(topk) :
          /\ TopDetermined(topk[j]) =>
                IsQuotient(acc.res[j], 100 * Cardinality(InTop(topk[j])), BatchSize)
          /\ topk[j] = 1 /\ (\A s \in 1 .. BatchSize : Above(s) + Tied(s) = 0) =>
                acc.res[j] = RatInt(100)

\* C7 as stated: for every batch and every tuple topk, accuracy returns one
\* value per k, in the order of topk, equal to 100 * (samples whose target is
\* among the sample's k highest-scored classes) / batch_size; when the
\* highest-scored class is the target in every sample, top-1 is 100.0.
C7_AccuracyForEveryTopk ==
    acc.kind # "none" => acc.kind = "return" /\ ValuesAsClaimed

\* C7 amended: the same, for a batch of at least one sample and a tuple topk
\* that is not empty and whose k's are between 1 and the number of classes;
\* when a k exceeds the number of classes accuracy raises and returns nothing.
C7_AccuracyForValidTopk ==
    acc.kind # "none" =>
        IF BatchSize >= 1 /\ topk # <<>>
              /\ \A j \in 1 .. Len(topk) : topk[j] \in 1 .. num_classes
        THEN acc.kind = "return" /\ ValuesAsClaimed
        ELSE acc.kind = "raise"

C7_Witness ==
    /\ acc.kind = "return"
    /\ BatchSize = 2
    /\ topk = <<2, 1>>
    /\ TopDetermined(1) /\ TopDetermined(2)
    /\ acc.res = <<RatInt(100), RatInt(50)>>

-----------------------------------------------------------------------------
(* setup_distributed: claims *)

UnderSlurm == env0["SLURM_JOB_ID"].set

\* the number a variable holds, written in decimal
Holds10(e, name, n) == e[name].set /\ e[name].v # <<>> /\ int(e[name].v) = n

ProcId == int(env0["SLURM_PROCID"].v)
NTasks == int(env0["SLURM_NTASKS"].v)

\* C9: under Slurm, when the process group is initialized, MASTER_PORT is the
\* port argument if one was given, else its earlier value if it had one, else
\* "29500"; a MASTER_ADDR set before is never overwritten; RANK, WORLD_SIZE
\* and LOCAL_RANK are SLURM_PROCID, SLURM_NTASKS and SLURM_PROCID mod the GPU
\* count, and the group is initialized with that rank and world size. Without
\* SLURM_JOB_ID no environment variable is modified and rank and world size
\* are those of RANK and WORLD_SIZE.
C9_SlurmEnvironment ==
    /\ env0["MASTER_ADDR"].set => env["MASTER_ADDR"] = env0["MASTER_ADDR"]
    /\ ~UnderSlurm => env = env0
    /\ dist.pg.initialized /\ UnderSlurm =>
          /\ IF port.given THEN Holds10(env, "MASTER_PORT", port.v)
             ELSE IF env0["MASTER_PORT"].set
             THEN env["MASTER_PORT"] = env0["MASTER_PORT"]
             ELSE env["MASTER_PORT"] = Value(<<"2", "9", "5", "0", "0">>)
          /\ Holds10(env, "RANK", ProcId)
          /\ Holds10(env, "WORLD_SIZE", NTasks)
          /\ Holds10(env, "LOCAL_RANK", ProcId % num_gpus)
          /\ dist.pg.rank = ProcId
          /\ dist.pg.world_size = NTasks
    /\ dist.pg.initialized /\ ~UnderSlurm =>
          /\ dist.pg.rank = int(env0["RANK"].v)
          /\ dist.pg.world_size = int(env0["WORLD_SIZE"].v)

C9_Witness ==
    /\ dist.pg.initialized
    /\ UnderSlurm
    /\ port = [given |-> TRUE, v |-> 0]
    /\ env0["MASTER_PORT"].set /\ env0["MASTER_ADDR"].set
    /\ env0["RANK"].set /\ env["RANK"] # env0["RANK"]
    /\ env["MASTER_PORT"] = Value(<<"0">>)
    /\ env["MASTER_ADDR"] = Value(<<"h", "0">>)

=============================================================================
